---- MODULE Spec2Model ----
(***************************************************************************)
(* Store-and-forward device simulator (tools/simulator.go) and the ingest  *)
(* endpoint it posts to.  Two threads share the Outbox: the main thread    *)
(* (sessions, then flushDrained, then the Done report) and the background  *)
(* flush goroutine.  Every Outbox method is a Lock step followed by a body *)
(* step that ends with the deferred Unlock.                                *)
(***************************************************************************)
EXTENDS Integers, Sequences, FiniteSets, TLC

\* ------------------------------------------------------------------ bounds
MaxSessions == 2
MaxDurMin == 2
MaxEmitted == 3
MaxUpdateEvery == 2
MaxBatch == 2
MalformedDepth == 1
MaxEmittedFair == 2
MaxEmittedPaths == 2

\* ------------------------------------------------------- program constants
SecondsPerMinute == 60
PeekAll == 1073741824
StatusOK == 200
StatusMethodNotAllowed == 405
StatusBadRequest == 400
DefaultOfflineProb == 20
DefaultServerErrProb == 10

\* The clock is finer than RFC3339's seconds: SubSec clock units make a second.
\* NowClock is time.Now() when a session is created, not on a whole second.
\* StartOffsetsMin(k) are the draws of rand.Intn(24*60) the model follows for the
\* k-th session: a different minute for each session.
SubSec == 2
NowClock == 2001
StartOffsetsMin(k) == {k - 1}

\* Probabilities are in percent.  RandDraws are the values of rand.Float64(),
\* which lies in [0, 1), that the model follows: the least and a largest one.
RandDraws == {0, 99}
AlwaysProb == 100

DeviceID == "airplane-N20503"
Threads == {"main", "bg"}
NoUpdate == [id |-> 0]

VARIABLES
  sessions, minDurMin, maxDurMin, updateEvery, batchSize,     \* flags
  offlineProb, serverErrProb,                                 \* flags, percent
  draws,                                                      \* rand.Intn results
  q, sent, mu,                                                \* Outbox
  pc,                                                         \* per thread
  sessNo, sess, updateEveryMin, runSeconds, lastUpdateSentAtMin, deviceMinute, u,
  before,                                                     \* flushDrained
  acked,                                       \* flushDrained's pass (history)
  fr,                                                         \* flushOnce frames
  stopFlush,
  store,                                                      \* ingest endpoint
  nextId, emitted, enqd, removed, delivered, closedCount      \* history

vars == <<sessions, minDurMin, maxDurMin, updateEvery, batchSize, offlineProb,
          serverErrProb, draws, q, sent,
          mu, pc,
          sessNo, sess, updateEveryMin, runSeconds, lastUpdateSentAtMin,
          deviceMinute, u, before, acked, fr, stopFlush, store,
          nextId, emitted, enqd, removed, delivered, closedCount>>

flagVars == <<sessions, minDurMin, maxDurMin, updateEvery, batchSize,
              offlineProb, serverErrProb, draws>>
sessVars == <<sessNo, sess, updateEveryMin, runSeconds, lastUpdateSentAtMin,
              deviceMinute>>

\* --------------------------------------------------------------- helpers
Min(a, b) == IF a < b THEN a ELSE b

\* time.Time.Format(time.RFC3339): the clock value cut to whole seconds.
FormatRFC3339(t) == t \div SubSec

\* fmt.Sprintf("%s:%d", start, run): the pair determines the string and back.
MsgID(start, run) == <<start, run>>

\* The JSON body of an update: every field but the pointer identity.
Marshal(r) == [device_id |-> r.device_id, session_start |-> r.session_start,
               run_seconds |-> r.run_seconds, last_update |-> r.last_update,
               status |-> r.status, msg_id |-> r.msg_id]

\* ---------------------------------------------------------------- Outbox
\* Mutant of Enqueue: the update is put at the head of the queue.
Enqueue_front(qq, r) == <<r>> \o qq

\* Mutant of Enqueue: the update takes the place of the newest one queued.
Enqueue_overwrite(qq, r) ==
  IF qq = <<>> THEN <<r>> ELSE [qq EXCEPT ![Len(qq)] = r]

Enqueue(qq, r) == Append(qq, r)

\* Mutant of PeekBatch: the newest updates are returned, not the oldest.
PeekBatch_newest(qq, max) ==
  SubSeq(qq, Len(qq) - Min(max, Len(qq)) + 1, Len(qq))

PeekBatch(qq, max) ==
  IF Len(qq) = 0 THEN <<>>
  ELSE SubSeq(qq, 1, Min(max, Len(qq)))

\* PeekBatch panics: make([]*Update, max) with a negative max, which is reached
\* when the queue is not empty.
PeekPanics(qq, max) == Len(qq) # 0 /\ Min(max, Len(qq)) < 0

\* Mutant of AckCount: the whole queue is dropped.
AckCount_all(qq, n) == Len(qq)

AckCount(qq, n) == IF n <= 0 THEN 0 ELSE Min(n, Len(qq))

\* Mutant of AckQueue: the last of the acknowledged updates stays queued.
AckQueue_keepOne(qq, n) ==
  IF AckCount(qq, n) = 0 THEN qq ELSE SubSeq(qq, AckCount(qq, n), Len(qq))

\* Mutant of AckQueue: the tail of the queue is cut off, not the head.
AckQueue_tail(qq, n) == SubSeq(qq, 1, Len(qq) - AckCount(qq, n))

AckQueue(qq, n) == SubSeq(qq, AckCount(qq, n) + 1, Len(qq))

\* Mutant of AckSent: the counter is raised by n as passed, not as clamped.
AckSent_unclamped(qq, s, n) == s + n

AckSent(qq, s, n) == s + AckCount(qq, n)

Lock(t) == mu = "free" /\ mu' = t

\* Mutant of Unlock: the deferred Unlock is missing.
Unlock_missing(t) == mu' = mu

Unlock(t) == mu' = "free"

\* ------------------------------------------------------- ingest endpoint
\* The /ingest handler: the status it answers with.
Handler(method, readable) ==
  IF method # "POST" THEN StatusMethodNotAllowed
  ELSE IF ~readable THEN StatusBadRequest
  ELSE StatusOK

\* Mutant of Ingest: a plain insert, a new row for every request.
Ingest_insert(st, w) ==
  [k \in (DOMAIN st) \cup {<<w.msg_id, Cardinality(DOMAIN st)>>} |->
     IF k \in DOMAIN st THEN st[k] ELSE w]

\* The idempotent upsert keyed by msg_id: one row per key, the row replaced by
\* the payload.
Ingest(st, w) ==
  [k \in (DOMAIN st) \cup {w.msg_id} |-> IF k = w.msg_id THEN w ELSE st[k]]

\* ------------------------------------------------------------- postOnce
\* What one call can meet: the simulated server failure (no request issued), a
\* transport error before the request is handled, a body the server cannot
\* read, an answer lost after the server handled the request, and an answer.
Outcomes == {"simulated", "transport", "unreadable", "lost", "answered"}

\* postOnce: if rand.Float64() < serverErrProb the failure is simulated and no
\* request issued; else the call meets one of the other outcomes.
PostOutcomes ==
  {o \in Outcomes :
     \E r \in RandDraws : (o = "simulated") <=> (r < serverErrProb)}

Handled(o) == o \in {"unreadable", "lost", "answered"}

StatusOf(o) == Handler("POST", o # "unreadable")

\* Mutant of postOnceOK: any answer counts, whatever its status.
postOnceOK_noStatus(o) == o \in {"unreadable", "answered"}

\* postOnce returns nil exactly on an answer with a 2xx status.
postOnceOK(o) ==
  /\ o \in {"unreadable", "answered"}
  /\ StatusOf(o) >= 200
  /\ StatusOf(o) < 300

\* The endpoint after the call: it persists what it accepted.
StoreAfter(o, r) ==
  IF Handled(o) /\ StatusOf(o) = StatusOK THEN Ingest(store, Marshal(r)) ELSE store

\* --------------------------------------------------------------- sessions
\* Mutant of Update: last_update is the time of the tick before.
Update_tickBefore(s, run, status, id, sn) ==
  [id |-> id, sn |-> sn,
   device_id |-> DeviceID,
   session_start |-> FormatRFC3339(s.StartUTC),
   run_seconds |-> run,
   last_update |->
     FormatRFC3339(s.StartUTC + (run - SecondsPerMinute) * SubSec),
   status |-> status,
   msg_id |-> MsgID(FormatRFC3339(s.StartUTC), run)]

Update(s, run, status, id, sn) ==
  [id |-> id, sn |-> sn,
   device_id |-> DeviceID,
   session_start |-> FormatRFC3339(s.StartUTC),
   run_seconds |-> run,
   last_update |-> FormatRFC3339(s.StartUTC + run * SubSec),
   status |-> status,
   msg_id |-> MsgID(FormatRFC3339(s.StartUTC), run)]

EmptyFrame == [batch |-> <<>>, i |-> 0, sent |-> 0, att |-> <<>>]

\* The updates a run emits at most: one a minute and the closing one, a session.
RECURSIVE MostUpdates(_)
MostUpdates(d) ==
  IF Len(d) = 0 THEN 0 ELSE d[1] + 1 + MostUpdates(Tail(d))

\* The state after construction but for the flags.
InitState ==
  /\ q = <<>> /\ sent = 0 /\ mu = "free"
  /\ pc = [t \in Threads |-> IF t = "main" THEN "sessions" ELSE "idle"]
  /\ sessNo = 0
  /\ sess = [StartUTC |-> 0, Duration |-> 0, Closed |-> FALSE]
  /\ updateEveryMin = 0 /\ runSeconds = 0 /\ lastUpdateSentAtMin = 0
  /\ deviceMinute = 0
  /\ u = NoUpdate
  /\ before = 0
  /\ acked = 0
  /\ fr = [t \in Threads |-> EmptyFrame]
  /\ stopFlush = FALSE
  /\ store = <<>>
  /\ nextId = 1 /\ emitted = <<>> /\ enqd = <<>> /\ removed = <<>>
  /\ delivered = {}
  /\ closedCount = [i \in 1..sessions |-> 0]

\* The state after construction but for the flags -updateEveryMin, -batch,
\* -offlineProb and -serverErrProb.
InitRest ==
  /\ sessions \in 1..MaxSessions
  /\ minDurMin = 0
  /\ maxDurMin = MaxDurMin
  /\ draws \in [1..sessions -> 0..(maxDurMin - minDurMin)]
  /\ MostUpdates(draws) <= MaxEmitted
  /\ InitState

\* The flags -offlineProb and -serverErrProb as they are by default.
DefaultProbs ==
  /\ offlineProb = DefaultOfflineProb
  /\ serverErrProb = DefaultServerErrProb

Init ==
  /\ updateEvery \in 1..MaxUpdateEvery
  /\ batchSize \in 1..MaxBatch
  /\ DefaultProbs
  /\ InitRest

\* The flags -updateEveryMin and -batch are not validated: zero and negative
\* values are accepted too.
ConfigInit ==
  /\ updateEvery \in (0 - MalformedDepth)..MaxUpdateEvery
  /\ batchSize \in (0 - MalformedDepth)..MaxBatch
  /\ DefaultProbs
  /\ InitRest

\* One session of the longest duration, an update every minute, -offlineProb 1.
OfflineInit ==
  /\ updateEvery = 1
  /\ batchSize \in 1..MaxBatch
  /\ offlineProb = AlwaysProb
  /\ serverErrProb = DefaultServerErrProb
  /\ InitRest
  /\ sessions = 1
  /\ draws[1] = maxDurMin - minDurMin

Goto(t, l) == pc' = [pc EXCEPT ![t] = l]

\* newRandomSession: the target duration and the start time.
newRandomSession(minMin, maxMin, draw, offMin) ==
  LET mx == IF maxMin < minMin THEN minMin ELSE maxMin
      durMin == minMin + draw IN
  /\ draw \in 0..(mx - minMin)
  /\ sess' = [StartUTC |-> NowClock - offMin * SecondsPerMinute * SubSec,
              Duration |-> durMin * SecondsPerMinute,
              Closed |-> FALSE]

\* main, the loop over the sessions: the next session is created and
\* simulateSession entered, or the loop is left for the final flush.
NextSession ==
  /\ pc["main"] = "sessions"
  /\ IF sessNo < sessions
     THEN /\ \E offMin \in StartOffsetsMin(sessNo + 1) :
               newRandomSession(minDurMin, maxDurMin, draws[sessNo + 1], offMin)
          /\ sessNo' = sessNo + 1
          /\ updateEveryMin' = IF updateEvery <= 0 THEN 1 ELSE updateEvery
          /\ runSeconds' = 0
          /\ lastUpdateSentAtMin' = -updateEveryMin'
          /\ deviceMinute' = 0
          /\ Goto("main", "loop")
     ELSE /\ Goto("main", "dBeforeLock")
          /\ UNCHANGED sessVars
  /\ UNCHANGED <<flagVars, acked, q, sent, mu, u, before, fr, stopFlush, store,
                 nextId, emitted, enqd, removed, delivered, closedCount>>

\* Mutant of NextRunSeconds: the device clock does not advance.
NextRunSeconds_stuck(rs) == rs

\* simulateSession: runSeconds += 60
NextRunSeconds(rs) == rs + SecondsPerMinute

\* simulateSession: online := rand.Float64() > offlineProb
OnlineDraws == {r > offlineProb : r \in RandDraws}

\* Mutant of CadenceDue: an update is due at every tick.
CadenceDue_always(minute, last, every) == TRUE

\* simulateSession: if deviceMinute-lastUpdateSentAtMin >= updateEveryMin
CadenceDue(minute, last, every) == minute - last >= every

\* simulateSession, one turn of the loop: a device minute passes and, when the
\* cadence says so, an open update is built; the device is online or not.
Tick ==
  /\ pc["main"] = "loop"
  /\ runSeconds < sess.Duration
  /\ deviceMinute' = deviceMinute + 1
  /\ runSeconds' = NextRunSeconds(runSeconds)
  /\ IF CadenceDue(deviceMinute', lastUpdateSentAtMin, updateEveryMin)
     THEN /\ lastUpdateSentAtMin' = deviceMinute'
          /\ u' = Update(sess, runSeconds', "open", nextId, sessNo)
          /\ nextId' = nextId + 1
          /\ emitted' = Append(emitted, u')
          /\ \E online \in OnlineDraws :
               Goto("main", IF online THEN "post" ELSE "enqLock")
     ELSE /\ UNCHANGED <<lastUpdateSentAtMin, u, nextId, emitted>>
          /\ Goto("main", "loop")
  /\ UNCHANGED <<flagVars, acked, q, sent, mu, sessNo, sess, updateEveryMin, before, fr,
                 stopFlush, store, enqd, removed, delivered, closedCount>>

\* Mutant of FinalPath: the final update is queued unposted when the device
\* is always offline.
FinalPath_offline == IF offlineProb >= AlwaysProb THEN "enqLock" ELSE "post"

\* Where the final update goes: to postOnce, with no connectivity draw.
FinalPath == "post"

\* simulateSession after the loop: the session is closed and the final update
\* built; it is always posted.
CloseSession ==
  /\ pc["main"] = "loop"
  /\ ~(runSeconds < sess.Duration)
  /\ sess' = [sess EXCEPT !.Closed = TRUE]
  /\ closedCount' = [closedCount EXCEPT ![sessNo] = @ + 1]
  /\ u' = Update(sess, sess.Duration, "closed", nextId, sessNo)
  /\ nextId' = nextId + 1
  /\ emitted' = Append(emitted, u')
  /\ Goto("main", FinalPath)
  /\ UNCHANGED <<flagVars, acked, q, sent, mu, sessNo, updateEveryMin, runSeconds,
                 lastUpdateSentAtMin, deviceMinute, before, fr, stopFlush,
                 store, enqd, removed, delivered>>

\* Mutant of AfterUpdate: simulateSession does not return after the final update.
AfterUpdate_loop == "loop"

\* Where simulateSession goes on after an update is dealt with.
AfterUpdate == IF u.status = "closed" THEN "sessions" ELSE "loop"

\* simulateSession's postOnce of the update in hand; a failure queues it.
SessionPost ==
  /\ pc["main"] = "post"
  /\ \E o \in PostOutcomes :
       /\ store' = StoreAfter(o, u)
       /\ IF postOnceOK(o)
          THEN /\ delivered' = delivered \cup {u.id}
               /\ u' = NoUpdate
               /\ Goto("main", AfterUpdate)
          ELSE /\ Goto("main", "enqLock")
               /\ UNCHANGED <<delivered, u>>
  /\ UNCHANGED <<flagVars, acked, q, sent, mu, sessVars, before, fr, stopFlush,
                 nextId, emitted, enqd, removed, closedCount>>

\* Mutant of AfterEnqueue: simulateSession gives the session up once an update
\* had to be queued.
AfterEnqueue_abort == "sessions"

\* Where simulateSession goes on after outbox.Enqueue(u): as after any update.
AfterEnqueue == AfterUpdate

\* Outbox.Enqueue from simulateSession: Lock, then the append and the Unlock.
EnqueueLock ==
  /\ pc["main"] = "enqLock"
  /\ Lock("main")
  /\ Goto("main", "enqBody")
  /\ UNCHANGED <<flagVars, acked, q, sent, sessVars, u, before, fr, stopFlush, store,
                 nextId, emitted, enqd, removed, delivered, closedCount>>

EnqueueBody ==
  /\ pc["main"] = "enqBody"
  /\ q' = Enqueue(q, u)
  /\ enqd' = Append(enqd, u.id)
  /\ u' = NoUpdate
  /\ Unlock("main")
  /\ Goto("main", AfterEnqueue)
  /\ UNCHANGED <<flagVars, acked, sent, sessVars, before, fr, stopFlush, store,
                 nextId, emitted, removed, delivered, closedCount>>

\* ------------------------------------------------------------- flushOnce
Ids(qq) == [k \in 1..Len(qq) |-> qq[k].id]

IdSet(qq) == {qq[k].id : k \in 1..Len(qq)}

\* The updates of qq that are no longer in qq2, in qq's order.
Gone(qq, qq2) == SelectSeq(Ids(qq), LAMBDA i : i \notin IdSet(qq2))

FlushPcs == {"peekLock", "peekBody", "flushPost", "ackLock", "ackBody"}

InFlush(t) == pc[t] \in FlushPcs

\* main has not returned: the process, and the goroutine with it, still runs.
Alive == pc["main"] \notin {"done", "panicked"}

\* Where flushOnce returns to: flushDrained in main, the select loop in the
\* flush goroutine.
FlushReturn(t) == IF t = "main" THEN "dAfterLock" ELSE "idle"

\* flushOnce, outbox.PeekBatch(batchSize): Lock.
FlushPeekLock(t) ==
  /\ pc[t] = "peekLock"
  /\ Alive
  /\ Lock(t)
  /\ Goto(t, "peekBody")
  /\ UNCHANGED <<flagVars, acked, q, sent, sessVars, u, before, fr, stopFlush, store,
                 nextId, emitted, enqd, removed, delivered, closedCount>>

\* flushOnce, outbox.PeekBatch(batchSize): the copy and the Unlock; an empty
\* batch ends the pass.
FlushPeekBody(t) ==
  /\ pc[t] = "peekBody"
  /\ Alive
  /\ ~PeekPanics(q, batchSize)
  /\ LET batch == PeekBatch(q, batchSize) IN
       IF Len(batch) = 0
       THEN /\ fr' = [fr EXCEPT ![t] = EmptyFrame]
            /\ Goto(t, FlushReturn(t))
       ELSE /\ fr' = [fr EXCEPT ![t] = [batch |-> batch, i |-> 1, sent |-> 0,
                                        att |-> <<>>]]
            /\ Goto(t, "flushPost")
  /\ Unlock(t)
  /\ UNCHANGED <<flagVars, acked, q, sent, sessVars, u, before, stopFlush, store,
                 nextId, emitted, enqd, removed, delivered, closedCount>>

\* flushOnce, outbox.PeekBatch(batchSize) panics: the deferred Unlock runs and
\* the process dies, the other thread with it.
FlushPeekPanic(t) ==
  /\ pc[t] = "peekBody"
  /\ Alive
  /\ PeekPanics(q, batchSize)
  /\ Unlock(t)
  /\ pc' = [x \in Threads |-> "panicked"]
  /\ UNCHANGED <<flagVars, acked, q, sent, sessVars, u, before, fr, stopFlush,
                 store, nextId, emitted, enqd, removed, delivered,
                 closedCount>>

\* Mutant of FlushAfterLoop: flushOnce returns without the Ack.
FlushAfterLoop_noAck(t, n) == FlushReturn(t)

\* Mutant of FlushAfterLoop: flushOnce calls Ack whatever was sent.
FlushAfterLoop_always(t, n) == "ackLock"

\* After the loop over the batch: Ack when something was sent.
FlushAfterLoop(t, n) == IF n > 0 THEN "ackLock" ELSE FlushReturn(t)

\* Mutant of LoopGoesOn: a failure does not break the loop.
LoopGoesOn_noBreak(f, ok) == f.i + 1 <= Len(f.batch)

\* flushOnce, the loop over the batch: it goes on to the next item after a
\* success while items are left, and a failure breaks it.
LoopGoesOn(f, ok) == ok /\ f.i + 1 <= Len(f.batch)

\* flushOnce, one turn of the loop over the batch: postOnce of the next item.
FlushPost(t) ==
  /\ pc[t] = "flushPost"
  /\ Alive
  /\ LET f == fr[t]
         r == f.batch[f.i] IN
     \E o \in PostOutcomes :
       LET ok == postOnceOK(o)
           g == IF ok
                THEN [f EXCEPT !.i = f.i + 1, !.sent = f.sent + 1,
                               !.att = Append(f.att, <<r.id, TRUE>>)]
                ELSE [f EXCEPT !.att = Append(f.att, <<r.id, FALSE>>)] IN
       /\ store' = StoreAfter(o, r)
       /\ delivered' = IF ok THEN delivered \cup {r.id} ELSE delivered
       /\ fr' = [fr EXCEPT ![t] = IF LoopGoesOn(f, ok) \/ g.sent > 0 THEN g
                                   ELSE EmptyFrame]
       /\ Goto(t, IF LoopGoesOn(f, ok) THEN "flushPost"
                  ELSE FlushAfterLoop(t, g.sent))
  /\ UNCHANGED <<flagVars, acked, q, sent, mu, sessVars, u, before, stopFlush,
                 nextId, emitted, enqd, removed, closedCount>>

\* flushOnce, outbox.Ack(sent): Lock.
FlushAckLock(t) ==
  /\ pc[t] = "ackLock"
  /\ Alive
  /\ Lock(t)
  /\ Goto(t, "ackBody")
  /\ UNCHANGED <<flagVars, acked, q, sent, sessVars, u, before, fr, stopFlush, store,
                 nextId, emitted, enqd, removed, delivered, closedCount>>

\* flushOnce, outbox.Ack(sent): the head of the queue is cut off, the counter
\* raised, and the Unlock.
FlushAckBody(t) ==
  /\ pc[t] = "ackBody"
  /\ Alive
  /\ q' = AckQueue(q, fr[t].sent)
  /\ sent' = AckSent(q, sent, fr[t].sent)
  /\ removed' = removed \o Gone(q, q')
  /\ acked' = IF t = "main" THEN AckCount(q, fr[t].sent) ELSE acked
  /\ fr' = [fr EXCEPT ![t] = EmptyFrame]
  /\ Unlock(t)
  /\ Goto(t, FlushReturn(t))
  /\ UNCHANGED <<flagVars, sessVars, u, before, stopFlush, store,
                 nextId, emitted, enqd, delivered, closedCount>>

\* ------------------------------------------------------ flush goroutine
\* The ticker fires: the goroutine calls flushOnce.
BgTick ==
  /\ pc["bg"] = "idle"
  /\ Alive
  /\ Goto("bg", "peekLock")
  /\ UNCHANGED <<flagVars, acked, q, sent, mu, sessVars, u, before, fr, stopFlush,
                 store, nextId, emitted, enqd, removed, delivered,
                 closedCount>>

\* stopFlush is closed: the goroutine returns.
BgStop ==
  /\ pc["bg"] = "idle"
  /\ Alive
  /\ stopFlush
  /\ Goto("bg", "stopped")
  /\ UNCHANGED <<flagVars, acked, q, sent, mu, sessVars, u, before, fr, stopFlush,
                 store, nextId, emitted, enqd, removed, delivered,
                 closedCount>>

\* ---------------------------------------------------------- flushDrained
\* before := len(outbox.PeekBatch(1 << 30)): Lock.
DrainBeforeLock ==
  /\ pc["main"] = "dBeforeLock"
  /\ Lock("main")
  /\ Goto("main", "dBeforeBody")
  /\ UNCHANGED <<flagVars, acked, q, sent, sessVars, u, before, fr, stopFlush, store,
                 nextId, emitted, enqd, removed, delivered, closedCount>>

\* before := len(outbox.PeekBatch(1 << 30)): an empty outbox ends the drain,
\* else flushOnce is called.
DrainBeforeBody ==
  /\ pc["main"] = "dBeforeBody"
  /\ before' = Len(PeekBatch(q, PeekAll))
  /\ acked' = 0
  /\ Unlock("main")
  /\ Goto("main", IF before' = 0 THEN "closeStop" ELSE "peekLock")
  /\ UNCHANGED <<flagVars, q, sent, sessVars, u, fr, stopFlush, store,
                 nextId, emitted, enqd, removed, delivered, closedCount>>

\* after := len(outbox.PeekBatch(1 << 30)): Lock.
DrainAfterLock ==
  /\ pc["main"] = "dAfterLock"
  /\ Lock("main")
  /\ Goto("main", "dAfterBody")
  /\ UNCHANGED <<flagVars, acked, q, sent, sessVars, u, before, fr, stopFlush, store,
                 nextId, emitted, enqd, removed, delivered, closedCount>>

\* Mutant of DrainStops: an outbox that did not shrink does not end the drain.
DrainStops_never(after, bef) == FALSE

\* flushDrained: if after >= before { return }
DrainStops(after, bef) == after >= bef

\* after := len(outbox.PeekBatch(1 << 30)): no shrinking ends the drain, else
\* the loop goes round.
DrainAfterBody ==
  /\ pc["main"] = "dAfterBody"
  /\ LET after == Len(PeekBatch(q, PeekAll)) IN
       Goto("main", IF DrainStops(after, before) THEN "closeStop"
                    ELSE "dBeforeLock")
  /\ acked' = 0
  /\ Unlock("main")
  /\ UNCHANGED <<flagVars, q, sent, sessVars, u, before, fr, stopFlush, store,
                 nextId, emitted, enqd, removed, delivered, closedCount>>

\* ------------------------------------------------------------ main's end
\* close(stopFlush)
CloseStop ==
  /\ pc["main"] = "closeStop"
  /\ stopFlush' = TRUE
  /\ Goto("main", "reportSent")
  /\ UNCHANGED <<flagVars, acked, q, sent, mu, sessVars, u, before, fr, store,
                 nextId, emitted, enqd, removed, delivered, closedCount>>

\* The Done line's first argument: outbox.sent is read, the mutex not taken.
ReportSent ==
  /\ pc["main"] = "reportSent"
  /\ Goto("main", "reportLock")
  /\ UNCHANGED <<flagVars, acked, q, sent, mu, sessVars, u, before, fr, stopFlush,
                 store, nextId, emitted, enqd, removed, delivered,
                 closedCount>>

\* The Done line's outbox.PeekBatch(1 << 30): Lock.
ReportLock ==
  /\ pc["main"] = "reportLock"
  /\ Lock("main")
  /\ Goto("main", "reportBody")
  /\ UNCHANGED <<flagVars, acked, q, sent, sessVars, u, before, fr, stopFlush, store,
                 nextId, emitted, enqd, removed, delivered, closedCount>>

\* The Done line is printed and main returns: the process exits.
ReportBody ==
  /\ pc["main"] = "reportBody"
  /\ Unlock("main")
  /\ Goto("main", "done")
  /\ UNCHANGED <<flagVars, acked, q, sent, sessVars, u, before, fr, stopFlush, store,
                 nextId, emitted, enqd, removed, delivered, closedCount>>

Next ==
  \/ NextSession
  \/ Tick
  \/ CloseSession
  \/ SessionPost
  \/ EnqueueLock
  \/ EnqueueBody
  \/ \E t \in Threads : FlushPeekLock(t)
  \/ \E t \in Threads : FlushPeekBody(t)
  \/ \E t \in Threads : FlushPost(t)
  \/ \E t \in Threads : FlushAckLock(t)
  \/ \E t \in Threads : FlushAckBody(t)
  \/ BgTick
  \/ BgStop
  \/ DrainBeforeLock
  \/ DrainBeforeBody
  \/ DrainAfterLock
  \/ DrainAfterBody
  \/ CloseStop
  \/ ReportSent
  \/ ReportLock
  \/ ReportBody

Spec == Init /\ [][Next]_vars

\* The program started with flags that were not validated.
ConfigNext == Next \/ \E t \in Threads : FlushPeekPanic(t)

ConfigSpec == ConfigInit /\ [][ConfigNext]_vars

\* The program started with -offlineProb at its default or at 1, on the runs
\* that emit up to MaxEmittedPaths updates.
PathsInit ==
  /\ updateEvery \in 1..MaxUpdateEvery
  /\ batchSize \in 1..MaxBatch
  /\ offlineProb \in {DefaultOfflineProb, AlwaysProb}
  /\ serverErrProb = DefaultServerErrProb
  /\ InitRest
  /\ MostUpdates(draws) <= MaxEmittedPaths

PathsSpec == PathsInit /\ [][Next]_vars

\* The flags -minSessionMin and -maxSessionMin are not validated: zero and
\* negative values, and a maximum below the minimum, are accepted too.  The
\* draws are those of rand.Intn(maxMin-minMin+1) after newRandomSession has
\* raised maxMin to minMin.
DurationInit ==
  /\ updateEvery = 1
  /\ batchSize \in 1..MaxBatch
  /\ DefaultProbs
  /\ sessions \in 1..MaxSessions
  /\ minDurMin \in (0 - MalformedDepth)..MaxDurMin
  /\ maxDurMin \in (0 - MalformedDepth)..MaxDurMin
  /\ draws \in [1..sessions ->
                 0..((IF maxDurMin < minDurMin THEN minDurMin ELSE maxDurMin)
                     - minDurMin)]
  /\ MostUpdates([i \in 1..sessions |->
                    IF minDurMin + draws[i] < 0 THEN 0
                    ELSE minDurMin + draws[i]]) <= MaxEmitted
  /\ InitState

DurationSpec == DurationInit /\ [][Next]_vars

\* The program started with -sessions 1 -updateEveryMin 1 -offlineProb 1.
OfflineSpec == OfflineInit /\ [][Next]_vars

\* ======================================================================
\* Properties
\* ======================================================================
\* The updates of session sn in the order they were emitted.
EmittedOf(sn) == SelectSeq(emitted, LAMBDA r : r.sn = sn)

\* The target duration of session sn, in seconds.
DurationOf(sn) == (minDurMin + draws[sn]) * SecondsPerMinute

\* simulateSession of the current session is still running.
InSession == pc["main"] \in {"loop", "post", "enqLock", "enqBody"}

\* C1: the updates removed from the outbox so far, in the order they left it,
\* followed by the updates still queued, in queue order, are the updates in
\* the order they were enqueued: what was removed is always a prefix of the
\* insertion order, and what is queued keeps its relative order.
C1_FifoPrefix == enqd = removed \o Ids(q)

\* C1 witness: an Ack has removed the oldest update and left a later one queued.
C1_Witness == Len(removed) >= 1 /\ Len(q) >= 1 /\ Len(enqd) >= 2

\* C2 (as claimed): every update removed from the outbox was delivered with
\* success before, whatever the interleaving of the session loop, the flush
\* goroutine and flushDrained.
C2_RemovedOnlyAfterSuccess ==
  \A k \in 1..Len(removed) : removed[k] \in delivered

\* C3 (as claimed): before the process exits, every emitted update that
\* simulateSession has dealt with was delivered with success or is still
\* queued.
C3_NoLossBeforeExit ==
  \A k \in 1..Len(emitted) :
    \/ emitted[k].id = u.id
    \/ emitted[k].id \in delivered
    \/ emitted[k].id \in IdSet(q)

\* The number of items a pass acknowledges when the claim is read off its
\* attempts: one less than the place of the first failure, or the whole batch.
FirstFailure(f) ==
  IF \E k \in 1..Len(f.att) : ~f.att[k][2]
  THEN CHOOSE k \in 1..Len(f.att) :
         ~f.att[k][2] /\ \A j \in 1..(k - 1) : f.att[j][2]
  ELSE Len(f.batch) + 1

\* C4 (as claimed): the Ack of a flush pass whose k-th item was the first to
\* fail removes exactly the k-1 delivered items of its batch from the head of
\* the outbox, and the k-th item and the items behind it stay queued in their
\* order (the whole batch is removed when no item failed).
C4_AckExactlyDelivered ==
  [][\A t \in Threads :
       (pc[t] = "ackBody" /\ pc'[t] # "ackBody") =>
         LET f == fr[t]
             n == FirstFailure(f) - 1 IN
         /\ Len(q) >= n
         /\ q' = SubSeq(q, n + 1, Len(q))
         /\ \A k \in 1..n : q[k] = f.batch[k]
         /\ \A k \in (n + 1)..Len(f.batch) : q'[k - n] = f.batch[k]]_vars

\* C5: in a flush pass the attempts are the batch items from the first on,
\* one by one with none skipped, the batch is a run of the insertion order,
\* only the last attempt can have failed, and while the loop is still running
\* no attempt has failed.
C5_InOrderStopAtFailure ==
  \A t \in Threads :
    pc[t] \in {"flushPost", "ackLock", "ackBody"} =>
      LET f == fr[t] IN
      /\ Len(f.att) <= Len(f.batch)
      /\ \A k \in 1..Len(f.att) : f.att[k][1] = f.batch[k].id
      /\ \A k \in 1..(Len(f.att) - 1) : f.att[k][2]
      /\ \E d \in 0..Len(enqd) :
           \A k \in 1..Len(f.batch) :
             d + k <= Len(enqd) /\ f.batch[k].id = enqd[d + k]
      /\ pc[t] = "flushPost" =>
           /\ \A k \in 1..Len(f.att) : f.att[k][2]
           /\ f.i = Len(f.att) + 1

\* C5 witness: a pass whose second attempt failed after a first success has
\* left the loop for the Ack.
C5_Witness ==
  \E t \in Threads :
    /\ pc[t] = "ackLock"
    /\ Len(fr[t].att) = 2
    /\ fr[t].att[1][2] /\ ~fr[t].att[2][2]

\* The places of the closed updates in a sequence of updates.
ClosedAt(e) == {k \in 1..Len(e) : e[k].status = "closed"}

\* C6: a session emits at most one closed update, it is the last update of the
\* session and carries the target duration, the Closed flag was set as often
\* as a closed update was emitted, and a session that is over has emitted
\* exactly one.
C6_ClosedExactlyOnceLast ==
  \A sn \in 1..sessNo :
    LET e == EmittedOf(sn)
        c == ClosedAt(e) IN
    /\ Cardinality(c) <= 1
    /\ \A k \in c :
         /\ k = Len(e)
         /\ e[k].run_seconds = DurationOf(sn)
    /\ closedCount[sn] = Cardinality(c)
    /\ (sn = sessNo) => (sess.Closed <=> c # {})
    /\ (sn < sessNo \/ ~InSession) => Cardinality(c) = 1

\* C6 witness: two sessions are over, the first one with an open update.
C6_Witness ==
  /\ sessNo = 2 /\ ~InSession
  /\ Len(EmittedOf(1)) = 2 /\ Len(EmittedOf(2)) = 1

C8_MsgIdDeterminesUpdate ==
  \A sn \in 1..sessNo :
    LET e == EmittedOf(sn) IN
    \A j, k \in 1..Len(e) :
      e[j].msg_id = e[k].msg_id => Marshal(e[j]) = Marshal(e[k])

\* The requests the handler accepts: a POST whose body it could read.
Accepts(method, readable) == method = "POST" /\ readable

C10_NoLockWhilePosting ==
  /\ \A t \in Threads : pc[t] \in {"post", "flushPost"} => mu # t
  /\ (pc["bg"] = "flushPost" /\ pc["main"] = "enqLock") => mu = "free"

\* C10 witness: the session loop is inside Enqueue, holding the mutex, while
\* the flush goroutine is in a delivery attempt.
C10_Witness == pc["bg"] = "flushPost" /\ pc["main"] = "enqBody" /\ mu = "main"

\* The places where a thread reads or writes the outbox's q or sent.
AccessPcs == {"enqBody", "peekBody", "ackBody", "dBeforeBody", "dAfterBody",
              "reportSent", "reportBody"}

\* C11 (as claimed): a thread that reads or writes the outbox's q or sent holds
\* the outbox mutex, so no two threads are at such an access at once; the read
\* of sent for the Done line is one of these accesses.
C11_AccessUnderMutex ==
  /\ \A t \in Threads : pc[t] \in AccessPcs => mu = t
  /\ ~(pc["main"] \in AccessPcs /\ pc["bg"] \in AccessPcs)

\* C12 (as claimed): only the session loop's thread is ever inside Enqueue,
\* and at no time are two flush passes (from the PeekBatch of flushOnce to its
\* return) in progress at once, the shutdown drain included.
C12_SoleProducerSoleConsumer ==
  /\ pc["bg"] \notin {"enqLock", "enqBody"}
  /\ ~(InFlush("main") /\ InFlush("bg"))

\* The batch is still the head of the queue: nothing was removed since it was
\* peeked, so only Enqueue calls can have come in between.
BatchIsHead(b, qq) ==
  /\ Len(b) <= Len(qq)
  /\ \A k \in 1..Len(b) : qq[k].id = b[k].id

\* C13: when the batch of a flush pass is still the head of the queue at its
\* Ack (only Enqueue calls came between its PeekBatch and its Ack), the Ack
\* removes exactly the updates the pass delivered, in order, counts them, and
\* leaves the rest of the batch and every update enqueued since queued behind
\* them in their order.
C13_AckAfterEnqueues ==
  [][\A t \in Threads :
       (pc[t] = "ackBody" /\ pc'[t] # "ackBody" /\ BatchIsHead(fr[t].batch, q)) =>
         LET f == fr[t]
             n == f.sent IN
         /\ n = FirstFailure(f) - 1
         /\ \A k \in 1..n : f.att[k][2] /\ f.att[k][1] \in delivered
         /\ Gone(q, q') = [k \in 1..n |-> f.att[k][1]]
         /\ q' = SubSeq(q, n + 1, Len(q))
         /\ sent' = sent + n]_vars

\* C13 witness: the flush goroutine, the only flusher, is at its Ack with a
\* batch that was the whole queue when peeked, and the session loop has
\* enqueued an update since.
C13_Witness ==
  /\ pc["bg"] = "ackBody" /\ ~InFlush("main")
  /\ Len(fr["bg"].batch) < batchSize
  /\ BatchIsHead(fr["bg"].batch, q)
  /\ Len(q) > Len(fr["bg"].batch)

\* The pcs of a flush pass that holds a peeked batch.
HoldsBatch(t) == pc[t] \in {"flushPost", "ackLock", "ackBody"}

\* C14: a PeekBatch step leaves the queue and the counter as they are and
\* returns the oldest min(max, len) updates in queue order (nothing, and no
\* delivery attempt, on an empty queue; the length of the queue for the drain's
\* PeekBatch(1 << 30)); the batch a pass holds never changes afterwards, and an
\* update enqueued after the call is not in it.
C14_PeekBatchSnapshot ==
  [][/\ \A t \in Threads :
          (pc[t] = "peekBody" /\ pc'[t] # "peekBody") =>
            /\ q' = q /\ sent' = sent
            /\ \A m \in 0..(Len(q) + 1) :
                 /\ Len(PeekBatch(q, m)) = Min(m, Len(q))
                 /\ \A k \in 1..Len(PeekBatch(q, m)) : PeekBatch(q, m)[k] = q[k]
            /\ IF Len(q) = 0
               THEN pc'[t] = FlushReturn(t) /\ fr'[t].batch = <<>>
               ELSE /\ pc'[t] = "flushPost"
                    /\ fr'[t].batch = SubSeq(q, 1, Min(batchSize, Len(q)))
     /\ (pc["main"] = "dBeforeBody" /\ pc'["main"] # "dBeforeBody") =>
          (q' = q /\ sent' = sent /\ before' = Len(q))
     /\ \A t \in Threads :
          (HoldsBatch(t) /\ pc'[t] \in {"flushPost", "ackLock", "ackBody"}) =>
            fr'[t].batch = fr[t].batch
     /\ (pc["main"] = "enqBody" /\ pc'["main"] # "enqBody") =>
          \A t \in Threads : u.id \notin IdSet(fr'[t].batch)]_vars

\* C14 witness: the flush goroutine holds a batch that was the whole queue when
\* peeked and is delivering it, and an update enqueued since is behind it.
C14_Witness ==
  /\ pc["bg"] = "flushPost"
  /\ Len(fr["bg"].batch) < batchSize
  /\ BatchIsHead(fr["bg"].batch, q)
  /\ Len(q) > Len(fr["bg"].batch)

\* C15: the step that runs the body of Ack(n) removes exactly the first
\* min(n, len) updates of the queue and raises the counter sent by that same
\* number; on every reachable queue Ack(n) with n <= 0 changes neither, and
\* for every n the counter rises by the number of updates removed; no step
\* lowers the counter.
C15_AckRemovesPrefix ==
  [][/\ \A t \in Threads :
          (pc[t] = "ackBody" /\ pc'[t] # "ackBody") =>
            LET m == Min(fr[t].sent, Len(q)) IN
            /\ q' = SubSeq(q, m + 1, Len(q))
            /\ Gone(q, q') = [k \in 1..m |-> q[k].id]
            /\ sent' = sent + m
     /\ \A n \in (-1)..(Len(q) + 1) :
          /\ n <= 0 => (AckQueue(q, n) = q /\ AckSent(q, sent, n) = sent)
          /\ n > 0 => AckQueue(q, n) = SubSeq(q, Min(n, Len(q)) + 1, Len(q))
          /\ AckSent(q, sent, n) = sent + Len(q) - Len(AckQueue(q, n))
     /\ sent' >= sent]_vars

\* C15 witness: an Ack is about to run with a count larger than the queue is
\* long, the queue not empty: the count is clamped and the queue emptied.
C15_Witness ==
  \E t \in Threads :
    pc[t] = "ackBody" /\ fr[t].sent > Len(q) /\ Len(q) >= 1

\* The start of session sn on the clock.
StartOf(sn) ==
  NowClock - (CHOOSE o \in StartOffsetsMin(sn) : TRUE) * SecondsPerMinute * SubSec

\* The device minutes of session sn at which an open update is due: the first
\* minute and every updateEveryMin-th minute after it.
DueMinutes(sn) ==
  LET n == IF updateEvery <= 0 THEN 1 ELSE updateEvery IN
  SelectSeq([m \in 1..(minDurMin + draws[sn]) |-> m],
            LAMBDA m : (m - 1) % n = 0)

\* The payloads session sn emits when nothing ever fails: read off the flags
\* and the session's duration alone.
ExpectedOf(sn) ==
  LET s == [StartUTC |-> StartOf(sn)]
      due == DueMinutes(sn) IN
  [k \in 1..Len(due) |->
     Marshal(Update(s, due[k] * SecondsPerMinute, "open", 0, sn))]
  \o <<Marshal(Update(s, DurationOf(sn), "closed", 0, sn))>>

\* C16: whatever ticks were offline and whatever delivery attempts failed, the
\* payloads a session has emitted so far are the first ones of the sequence
\* the flags and its duration determine, and a session that is over has
\* emitted that sequence whole, the closed update included.
C16_EmissionIgnoresFailures ==
  [](\A sn \in 1..sessNo :
       LET e == EmittedOf(sn)
           x == ExpectedOf(sn) IN
       /\ Len(e) <= Len(x)
       /\ \A k \in 1..Len(e) : Marshal(e[k]) = x[k]
       /\ (sn < sessNo \/ ~InSession) => Len(e) = Len(x))

\* C16 witness: a session of three updates is over; one of its updates was
\* queued (an offline tick or a failed attempt) and another was delivered at
\* once and never queued.
C16_Witness ==
  LET e == EmittedOf(1) IN
  /\ (sessNo > 1 \/ ~InSession)
  /\ Len(e) = 3
  /\ \E j, k \in 1..Len(e) :
       /\ \E i \in 1..Len(enqd) : enqd[i] = e[j].id
       /\ \A i \in 1..Len(enqd) : enqd[i] # e[k].id
       /\ e[k].id \in delivered

\* The steps of the flush goroutine's flushOnce.
BgFlush ==
  \/ FlushPeekLock("bg")
  \/ FlushPeekBody("bg")
  \/ FlushPost("bg")
  \/ FlushAckLock("bg")
  \/ FlushAckBody("bg")

\* The flush goroutine is scheduled: a pass it has begun goes on whenever it
\* can.  Nothing is assumed of the main thread or of the ticker.
LiveSpec == Spec /\ WF_vars(BgFlush)

\* A step in which a delivery attempt fails: the session loop's postOnce sends
\* it to Enqueue, a flush pass ends its loop without counting the item.
FailedAttempt ==
  \/ pc["main"] = "post" /\ pc'["main"] = "enqLock"
  \/ \E t \in Threads :
       /\ pc[t] = "flushPost"
       /\ (pc'[t] # pc[t] \/ fr'[t] # fr[t])
       /\ fr'[t].sent = fr[t].sent

DrainReturns == pc["main"] \in {"dBeforeBody", "dAfterBody"} /\ pc'["main"] = "closeStop"

\* flushDrained has just compared the length of the outbox after its pass.
DrainCompares == pc["main"] = "dAfterBody" /\ pc'["main"] # "dAfterBody"

\* C18 (as claimed): flushDrained returns only when the outbox is empty or its
\* flush pass acknowledged nothing; after a pass that acknowledged nothing it
\* returns; and after a pass that acknowledged at least one update, the outbox
\* not empty, it goes round for another pass.
C18_DrainUntilNoProgress ==
  [][/\ DrainReturns => (Len(q) = 0 \/ acked = 0)
     /\ (DrainCompares /\ acked = 0) => DrainReturns
     /\ (DrainCompares /\ acked >= 1 /\ Len(q) > 0) =>
          pc'["main"] = "dBeforeLock"]_vars

\* The steps of the main thread.
MainStep ==
  \/ NextSession \/ Tick \/ CloseSession \/ SessionPost
  \/ EnqueueLock \/ EnqueueBody
  \/ FlushPeekLock("main") \/ FlushPeekBody("main") \/ FlushPost("main")
  \/ FlushAckLock("main") \/ FlushAckBody("main")
  \/ DrainBeforeLock \/ DrainBeforeBody \/ DrainAfterLock \/ DrainAfterBody
  \/ CloseStop \/ ReportSent \/ ReportLock \/ ReportBody

\* Both threads are scheduled.  The main thread's fairness is strong: it is not
\* starved at mu.Lock() by a goroutine that takes the mutex again and again
\* (sync.Mutex hands the mutex to a waiter that has waited long).
\* Termination is checked on the runs that emit up to MaxEmittedFair updates.
FairInit == Init /\ MostUpdates(draws) <= MaxEmittedFair

FairSpec ==
  FairInit /\ [][Next]_vars /\ SF_vars(MainStep) /\ WF_vars(BgFlush)

\* C19: whatever the delivery outcomes, every session gets to its closed
\* update, flushDrained returns, and main gets to its end.
C19_Terminates ==
  /\ \A sn \in 1..MaxSessions :
       <>(sn \in DOMAIN closedCount => closedCount[sn] = 1)
  /\ <>(pc["main"] \in {"closeStop", "reportSent", "reportLock", "reportBody",
                         "done"})
  /\ <>(pc["main"] = "done")

\* C19 witness: main is at its end after two sessions although delivery kept
\* failing: updates are still queued and none was ever delivered.
C19_Witness ==
  /\ pc["main"] = "done" /\ sessNo = 2
  /\ Len(q) >= 2 /\ delivered = {}

\* C20 (as claimed): with zero or negative -updateEveryMin and -batch the
\* program does not panic, simulateSession runs with a cadence of at least one
\* minute, and a flush pass that finds the outbox not empty peeks at least one
\* update, so that the outbox can drain.
C20_MalformedConfigClamped ==
  [][/\ pc'["main"] # "panicked"
     /\ pc'["main"] = "loop" => updateEveryMin' >= 1
     /\ \A t \in Threads :
          (pc[t] = "peekBody" /\ pc'[t] # "peekBody" /\ Len(q) > 0) =>
            (pc'[t] = "flushPost" /\ Len(fr'[t].batch) >= 1)]_vars

\* A turn of simulateSession's loop is taken in this step.
TickStep == pc["main"] = "loop" /\ deviceMinute' = deviceMinute + 1

\* An update is emitted in this step.
Emits == Len(emitted') = Len(emitted) + 1

\* The device minute at which the current session emitted its latest update;
\* zero, the start of the session, when it has emitted none.
PrevEmissionMin ==
  LET e == EmittedOf(sessNo) IN
  IF Len(e) = 0 THEN 0 ELSE e[Len(e)].run_seconds \div SecondsPerMinute

\* C21 (as claimed): a tick emits an open update exactly when the device time
\* since the session's previous emission, or since the start of the session
\* for the first one, has reached updateEveryMin minutes.
C21_EmitsWhenIntervalElapsed ==
  [][TickStep =>
       (Emits <=> deviceMinute' - PrevEmissionMin >= updateEveryMin)]_vars

\* C21 (amended): the first tick of a session always emits an open update,
\* whatever updateEveryMin is; a later tick emits one exactly when the device
\* time since the session's previous emission has reached updateEveryMin
\* minutes.  What is emitted at a tick is an open update of that minute.
C21_EmitsFirstThenEveryN ==
  [][TickStep =>
       /\ Emits <=> \/ Len(EmittedOf(sessNo)) = 0
                     \/ deviceMinute' - PrevEmissionMin >= updateEveryMin
       /\ Len(EmittedOf(sessNo)) = 0 <=> deviceMinute = 0
       /\ Emits => /\ u'.status = "open"
                    /\ u'.run_seconds = deviceMinute' * SecondsPerMinute]_vars

\* C21 witness: with updateEveryMin = 2 the first tick has emitted an update
\* and the second tick has passed without one.
C21_Witness ==
  /\ pc["main"] = "loop" /\ updateEveryMin = 2 /\ deviceMinute = 2
  /\ Len(EmittedOf(sessNo)) = 1

\* C22 (as claimed): when the one session of the all-offline run is over, the
\* outbox holds an open update for every minute of the session and then the
\* closed update, and run_seconds strictly increases along the outbox.
C22_OfflineSessionQueuesAll ==
  (pc["main"] = "sessions" /\ sessNo = 1) =>
    LET n == DurationOf(1) \div SecondsPerMinute IN
    /\ Len(q) = n + 1
    /\ \A k \in 1..Len(q) :
         /\ k <= n => (q[k].status = "open"
                        /\ q[k].run_seconds = k * SecondsPerMinute)
         /\ k = n + 1 => q[k].status = "closed"
    /\ \A k \in 1..(Len(q) - 1) : q[k].run_seconds < q[k + 1].run_seconds

\* The flush goroutine ends, in this step, a pass of flushOnce that had peeked
\* the whole outbox (fewer updates than the batch size) and delivered all of
\* it, while main is in a session (the final drain has not begun).
CleanPassEnds ==
  /\ pc["bg"] = "ackBody" /\ pc'["bg"] = "idle"
  /\ InSession
  /\ Len(fr["bg"].batch) < batchSize
  /\ fr["bg"].sent = Len(fr["bg"].batch)

\* C23 (as claimed): the outbox is empty right after a flush pass of the
\* goroutine that took the whole outbox and delivered all of it.
C23_EmptyAfterFlushPass == [][CleanPassEnds => q' = <<>>]_vars

\* C23 (amended): right after such a pass the outbox holds exactly the updates
\* enqueued while the pass was under way, in their order; it is empty exactly
\* when no update was enqueued between the pass's PeekBatch and its Ack.
C23_EmptyAfterUndisturbedPass ==
  [][CleanPassEnds =>
       LET b == fr["bg"].batch IN
       /\ BatchIsHead(b, q)
       /\ q' = SubSeq(q, Len(b) + 1, Len(q))
       /\ \A k \in 1..Len(q') : q'[k].id \notin IdSet(b)
       /\ Len(q) = Len(b) => q' = <<>>
       /\ Len(q) > Len(b) => q' # <<>>]_vars

\* C23 witness: during a session a pass of the goroutine has delivered and
\* removed the one update enqueued so far, and the outbox is empty.
C23_Witness ==
  /\ InSession /\ pc["bg"] = "idle"
  /\ Len(enqd) = 1 /\ Len(removed) = 1 /\ removed[1] \in delivered
  /\ q = <<>> /\ sent = 1

C25_DeliveredInEmissionOrder ==
  [][\A x \in delivered' \ delivered :
       \A y \in delivered :
         ~(emitted[y].sn = emitted[x].sn /\ y > x)]_vars

\* The endpoint holds the body of update r as the row of its msg_id.
Stored(st, r) == r.msg_id \in DOMAIN st /\ st[r.msg_id] = Marshal(r)

\* C26: postOnce succeeds on an answer with a 2xx status and on nothing else
\* (not on the simulated failure, a transport error, an answer lost, or a
\* non-2xx answer).  An attempt taken as a success has had its request handled
\* and accepted by the endpoint; an attempt of the session loop taken as a
\* failure leaves the update in hand, and the update is enqueued next; a
\* failed attempt of a flush pass delivers nothing.
C26_SuccessIs2xxElseQueued ==
  [][/\ \A o \in Outcomes :
          postOnceOK(o) <=>
            (o # "simulated" /\ Handled(o) /\ o # "lost"
             /\ StatusOf(o) \in 200..299)
     /\ (pc["main"] = "post" /\ pc'["main"] # "post") =>
          \/ /\ pc'["main"] = AfterUpdate
             /\ delivered' = delivered \cup {u.id}
             /\ Stored(store', u)
             /\ q' = q /\ enqd' = enqd
          \/ /\ pc'["main"] = "enqLock"
             /\ u' = u /\ delivered' = delivered
     /\ (pc["main"] = "enqLock" /\ pc'["main"] # "enqLock") =>
          (pc'["main"] = "enqBody" /\ u' = u)
     /\ (pc["main"] = "enqBody" /\ pc'["main"] # "enqBody") =>
          (q' = Append(q, u) /\ enqd' = Append(enqd, u.id))
     /\ \A t \in Threads :
          (pc[t] = "flushPost" /\ fr'[t] # fr[t]) =>
            LET r == fr[t].batch[fr[t].i] IN
            IF fr'[t].sent = fr[t].sent + 1
            THEN delivered' = delivered \cup {r.id} /\ Stored(store', r)
            ELSE delivered' = delivered /\ pc'[t] # "flushPost"]_vars

\* C26 witness: the session loop is about to enqueue the closing update after
\* an attempt that failed although the endpoint had accepted the request (the
\* answer was lost on the way back).
C26_Witness ==
  /\ pc["main"] = "enqLock" /\ u.status = "closed"
  /\ Stored(store, u)

\* C27: every update emitted, open or closed, and so every update queued and
\* every row of the endpoint, carries the start of its session, formatted, as
\* session_start, and session_start plus run_seconds seconds as last_update.
C27_LastUpdateIsStartPlusRun ==
  /\ \A k \in 1..Len(emitted) :
       LET e == emitted[k] IN
       /\ e.session_start = FormatRFC3339(StartOf(e.sn))
       /\ e.last_update = e.session_start + e.run_seconds
  /\ \A k \in 1..Len(q) :
       q[k].last_update = q[k].session_start + q[k].run_seconds
  /\ \A m \in DOMAIN store :
       store[m].last_update = store[m].session_start + store[m].run_seconds

\* C27 witness: a session whose start is not on a whole second has emitted an
\* open update and its closing update, and the endpoint holds a row.
C27_Witness ==
  /\ StartOf(1) % SubSec # 0
  /\ \E j, k \in 1..Len(emitted) :
       /\ emitted[j].sn = 1 /\ emitted[j].status = "open"
       /\ emitted[k].sn = 1 /\ emitted[k].status = "closed"
  /\ DOMAIN store # {}

\* C28: a pass of flushOnce whose PeekBatch finds the outbox empty returns at
\* once, with no delivery attempt; a pass whose first attempt fails returns
\* with no Ack; either step leaves the outbox and the counter as they are, and
\* a pass reaches its Ack only with something sent.
C28_NoAckWithoutDelivery ==
  [][\A t \in Threads :
       /\ (pc[t] = "peekBody" /\ pc'[t] # "peekBody" /\ Len(q) = 0) =>
            /\ pc'[t] = FlushReturn(t)
            /\ fr'[t] = EmptyFrame
            /\ q' = q /\ sent' = sent /\ removed' = removed
            /\ store' = store /\ delivered' = delivered
       /\ (pc[t] = "flushPost" /\ fr[t].i = 1 /\ fr'[t] # fr[t]
            /\ fr'[t].sent = 0) =>
            /\ pc'[t] = FlushReturn(t)
            /\ q' = q /\ sent' = sent /\ removed' = removed
            /\ delivered' = delivered
       /\ pc[t] \in {"ackLock", "ackBody"} => fr[t].sent >= 1]_vars

\* C28 witness: the drain's pass of flushOnce has returned without an Ack from
\* a non-empty outbox (its first attempt failed), and nothing has ever been
\* removed or counted.
C28_Witness ==
  /\ pc["main"] = "dAfterLock" /\ pc["bg"] = "idle"
  /\ before >= 1 /\ Len(q) = before
  /\ removed = <<>> /\ sent = 0

\* The updates a flush pass has delivered and an Ack has taken off the outbox.
DeliveredAndRemoved == {k \in 1..Len(removed) : removed[k] \in delivered}

\* C29 (as claimed): the counter is the number of updates from the outbox
\* that a flush pass delivered and that were acknowledged; it counts no update
\* that was not delivered.
C29_SentCountsDelivered == sent = Cardinality(DeliveredAndRemoved)

\* C30: the counter plus the length of the outbox is the number of updates
\* enqueued so far, in every state of every interleaving of the session loop,
\* the flush goroutine and the drain.
C30_Conservation == sent + Len(q) = Len(enqd)

\* C30 witness: while the goroutine and the drain are both at the Ack of a
\* pass, something has been counted and something is still queued.
C30_Witness ==
  /\ pc["main"] = "ackBody" /\ pc["bg"] = "ackLock"
  /\ sent >= 1 /\ Len(q) >= 1

C32_OutboxInEmissionOrder ==
  \A j, k \in 1..Len(q) :
    j < k =>
      /\ q[j].id < q[k].id
      /\ q[j].sn <= q[k].sn
      /\ q[j].sn = q[k].sn =>
           /\ q[j].run_seconds <= q[k].run_seconds
           /\ q[j].status = "open"

\* C32 witness: the outbox holds the open and the closing update of the first
\* session and, behind them, the closing update of the second.
C32_Witness ==
  /\ Len(q) = 3
  /\ q[1].sn = 1 /\ q[1].status = "open"
  /\ q[2].sn = 1 /\ q[2].status = "closed"
  /\ q[3].sn = 2

\* C33 (as claimed): the target duration of the session created is a whole
\* number of minutes, in seconds, from minMin to the larger of minMin and
\* maxMin; and run_seconds of every update emitted is a positive multiple of
\* 60 that does not exceed the target duration of its session.
C33_DurationAndRunSeconds ==
  /\ sessNo >= 1 =>
       /\ sess.Duration = DurationOf(sessNo)
       /\ sess.Duration % SecondsPerMinute = 0
       /\ sess.Duration \div SecondsPerMinute \in
            minDurMin..(IF maxDurMin < minDurMin THEN minDurMin ELSE maxDurMin)
  /\ \A k \in 1..Len(emitted) :
       LET e == emitted[k] IN
       /\ e.run_seconds > 0
       /\ e.run_seconds % SecondsPerMinute = 0
       /\ e.run_seconds <= DurationOf(e.sn)

====
